---- MODULE Spec2Model ----
(***************************************************************************)
(* ABC flow generator: the time-series export engine generate_abc_flow of  *)
(* main.py and the form ABCFlowGUI of GUI.py that drives it.               *)
(*                                                                         *)
(* A Python float is modelled as the IEEE 754 binary64 number it is: sign, *)
(* odd significand and binary exponent, or an infinity or nan.  Each sum,  *)
(* product and quotient is rounded to the nearest such number, as the      *)
(* machine rounds it, and so is each decimal numeral read by float(); a    *)
(* float is written to decimal digits from its exact value.  Significands  *)
(* are held as natural numbers of any size (sequences of base-2^15         *)
(* digits).  np.sin / np.cos are left uninterpreted: a phase is the record *)
(* of its sinusoidal terms and its linear part, and a per-step file holds  *)
(* the three axes, the coefficients and that phase.                        *)
(*                                                                         *)
(* A str whose characters the code inspects (a widget text, a file name, a *)
(* path) is a sequence of one-character strings; Join gives its string.    *)
(* A printable ASCII character is the string of itself, and the character  *)
(* of any other code point n is the string Chr(n).  Paths follow           *)
(* posixpath.  The tables of blanks and decimal digits are those of        *)
(* CPython 3.11 (Unicode 14).                                              *)
(***************************************************************************)
EXTENDS Integers, Sequences, FiniteSets, TLC

(* ------------------------------ bounds --------------------------------- *)
MaxN == 2
MaxSteps == 3
MaxTerms == 1
MaxRuns == 2
MaxEvents == 3
MaxRows == 2

(* ------------------------- program constants --------------------------- *)
IndexWidth == 4
TimeDigits == 6

(* ----------------------- natural numbers of any size ------------------- *)
\* A natural number is the sequence of its digits in base 2^15, the least
\* significant first and the last one not 0; <<>> is the number 0.
LimbBits == 15
Base == 32768
Big == Seq(Nat)

Abs(x) == IF x < 0 THEN -x ELSE x
Min(a, b) == IF a < b THEN a ELSE b
Max(a, b) == IF a < b THEN b ELSE a

Pow2[n \in Nat] == 2^n
Pow10[n \in Nat] == 10^n

\* the number of bits of n
BitLen[n \in Nat] == IF n = 0 THEN 0 ELSE 1 + BitLen[n \div 2]

\* the number of zero bits n > 0 ends with
Tz[n \in Nat] == IF n % 2 = 1 THEN 0 ELSE 1 + Tz[n \div 2]

\* digit i of a
Limb(a, i) == IF i <= Len(a) THEN a[i] ELSE 0

\* a without the zeros it ends with
BigTrim[a \in Big] ==
    SubSeq(a, 1, CHOOSE n \in 0..Len(a) :
                    /\ n = 0 \/ a[n] # 0
                    /\ \A i \in (n + 1)..Len(a) : a[i] = 0)

BigOfInt[n \in Nat] == IF n = 0 THEN <<>> ELSE <<n % Base>> \o BigOfInt[n \div Base]

\* the int of a number below 2^31
BigToInt[a \in Big] == IF a = <<>> THEN 0 ELSE a[1] + Base * BigToInt[Tail(a)]

BigBitLen[a \in Big] ==
    IF a = <<>> THEN 0 ELSE LimbBits * (Len(a) - 1) + BitLen[a[Len(a)]]

\* the number of zero bits a > 0 ends with
BigTz[a \in Big] ==
    LET n == CHOOSE i \in 1..Len(a) : a[i] # 0 /\ \A j \in 1..(i - 1) : a[j] = 0
    IN  LimbBits * (n - 1) + Tz[a[n]]

\* -1, 0, 1 as a < b, a = b, a > b
BigCmp[a \in Big, b \in Big] ==
    LET diff == {i \in 1..Len(a) : a[i] # b[i]}
        top == CHOOSE i \in diff : \A j \in diff : j <= i
    IN  IF Len(a) # Len(b) THEN (IF Len(a) < Len(b) THEN -1 ELSE 1)
        ELSE IF diff = {} THEN 0
        ELSE IF a[top] < b[top] THEN -1 ELSE 1

\* The digits lo..hi of a sum, difference or product are computed by halves
\* of lo..hi, after the digits below them: st = <<those digits, carry>>.

\* <<digits 1..hi of a + b + c, carry>> from st = <<digits 1..lo-1, carry>>
AddDigits[a \in Big, b \in Big, st \in Big \X Nat, lo \in Nat, hi \in Nat] ==
    IF lo > hi THEN st
    ELSE IF lo = hi
      THEN <<Append(st[1], (Limb(a, lo) + Limb(b, lo) + st[2]) % Base),
             (Limb(a, lo) + Limb(b, lo) + st[2]) \div Base>>
    ELSE AddDigits[a, b, AddDigits[a, b, st, lo, (lo + hi) \div 2],
                   (lo + hi) \div 2 + 1, hi]

\* the digits and the last carry as one number
Carried[st \in Big \X Nat] == BigTrim[st[1] \o BigOfInt[st[2]]]

\* a + b + c
BigAdd[a \in Big, b \in Big, c \in Nat] ==
    Carried[AddDigits[a, b, <<<<>>, c>>, 1, Max(Len(a), Len(b))]]

\* <<digits 1..hi of a - b, borrow>> from st = <<digits 1..lo-1, borrow>>
SubDigits[a \in Big, b \in Big, st \in Big \X Nat, lo \in Nat, hi \in Nat] ==
    IF lo > hi THEN st
    ELSE IF lo = hi
      THEN <<Append(st[1], (Limb(a, lo) - Limb(b, lo) - st[2] + Base) % Base),
             IF Limb(a, lo) - Limb(b, lo) - st[2] < 0 THEN 1 ELSE 0>>
    ELSE SubDigits[a, b, SubDigits[a, b, st, lo, (lo + hi) \div 2],
                   (lo + hi) \div 2 + 1, hi]

\* a - b, for a >= b
BigSub[a \in Big, b \in Big] == BigTrim[SubDigits[a, b, <<<<>>, 0>>, 1, Len(a)][1]]

\* <<digits 1..hi of a * s + c, carry>> from st = <<digits 1..lo-1, carry>>,
\* for s <= 2^15 and c < 2^15
MulDigits[a \in Big, s \in Nat, st \in Big \X Nat, lo \in Nat, hi \in Nat] ==
    IF lo > hi THEN st
    ELSE IF lo = hi
      THEN <<Append(st[1], (a[lo] * s + st[2]) % Base), (a[lo] * s + st[2]) \div Base>>
    ELSE MulDigits[a, s, MulDigits[a, s, st, lo, (lo + hi) \div 2],
                   (lo + hi) \div 2 + 1, hi]

\* the digits of a * s + c, for s <= 2^15 and c < 2^15
BigMulAdd[a \in Big, s \in Nat, c \in Nat] ==
    Carried[MulDigits[a, s, <<<<>>, c>>, 1, Len(a)]]

\* the digits of a * b, a digit of b at a time
BigMulFrom[a \in Big, b \in Big] ==
    IF b = <<>> THEN <<>>
    ELSE BigAdd[BigMulAdd[a, b[1], 0], <<0>> \o BigMulFrom[a, Tail(b)], 0]

\* a * b, for b of a few digits
BigMul[a \in Big, b \in Big] == BigTrim[BigMulFrom[a, b]]

\* a * 10^k, by halves of k
BigMulPow10[a \in Big, k \in Nat] ==
    IF k <= 4 THEN BigTrim[BigMulAdd[a, Pow10[k], 0]]
    ELSE BigMulPow10[BigMulPow10[a, k \div 2], k - k \div 2]

\* the number whose decimal digits are ds, by halves of ds
BigOfDigits[ds \in Seq(0..9)] ==
    IF ds = <<>> THEN <<>>
    ELSE IF Len(ds) = 1 THEN BigOfInt[ds[1]]
    ELSE BigAdd[BigMulPow10[BigOfDigits[SubSeq(ds, 1, Len(ds) \div 2)],
                            Len(ds) - Len(ds) \div 2],
                BigOfDigits[SubSeq(ds, Len(ds) \div 2 + 1, Len(ds))], 0]

\* a * 2^k
BigShl[a \in Big, k \in Nat] ==
    IF a = <<>> THEN <<>>
    ELSE [i \in 1..(k \div LimbBits) |-> 0] \o BigMulAdd[a, Pow2[k % LimbBits], 0]

\* a \div 2^k
BigShr[a \in Big, k \in Nat] ==
    IF k \div LimbBits >= Len(a) THEN <<>>
    ELSE BigTrim[[i \in 1..(Len(a) - k \div LimbBits) |->
            LET j == i + k \div LimbBits
                r == k % LimbBits
            IN  a[j] \div Pow2[r]
                + (IF j < Len(a) THEN (a[j + 1] % Pow2[r]) * Pow2[LimbBits - r]
                   ELSE 0)]]

\* bit i of a (bit 0 is the lowest)
BigBit[a \in Big, i \in Nat] ==
    IF i \div LimbBits >= Len(a) THEN 0
    ELSE (a[i \div LimbBits + 1] \div Pow2[i % LimbBits]) % 2

\* the k lowest bits of a are 0
BigLowZero[a \in Big, k \in Nat] ==
    /\ \A j \in 1..Min(k \div LimbBits, Len(a)) : a[j] = 0
    /\ \/ k \div LimbBits >= Len(a)
       \/ a[k \div LimbBits + 1] % Pow2[k % LimbBits] = 0

\* a / 2^k for k >= 1, rounded to the nearest integer and to the even one
\* of two that are equally near
BigRoundShr[a \in Big, k \in Nat] ==
    BigAdd[BigShr[a, k], <<>>,
           IF BigBit[a, k - 1] = 1 /\ (~BigLowZero[a, k - 1] \/ BigBit[a, k] = 1)
             THEN 1 ELSE 0]

\* <<quotient, remainder>> of r * 2^i + (x % 2^i) by n, for r < n <= 2^30:
\* at once when n <= 2^16, where r * 2^i + x is below 2^31, and else a bit
\* of x at a time; q is the quotient so far
DivBits[r \in Nat, x \in Nat, i \in Nat, n \in Nat, q \in Nat] ==
    LET r2 == 2 * r + ((x \div Pow2[i - 1]) % 2)
    IN  IF i = 0 THEN <<q, r>>
        ELSE IF n <= 2 * Base
          THEN <<q * Pow2[i] + (r * Pow2[i] + (x % Pow2[i])) \div n,
                 (r * Pow2[i] + (x % Pow2[i])) % n>>
        ELSE IF r2 >= n THEN DivBits[r2 - n, x, i - 1, n, 2 * q + 1]
        ELSE DivBits[r2, x, i - 1, n, 2 * q]

\* a digit qr[1] put below the digits q of a quotient, with the remainder
DivStep[qr \in Nat \X Nat, q \in Big] == <<<<qr[1]>> \o q, qr[2]>>

\* <<digits lo.. of a \div n, remainder>> from st = <<digits hi+1.. of it,
\* remainder>>, by halves of lo..hi, for 0 < n <= 2^30
DivDigits[a \in Big, n \in Nat, st \in Big \X Nat, lo \in Nat, hi \in Nat] ==
    IF lo > hi THEN st
    ELSE IF lo = hi
      THEN DivStep[DivBits[st[2], a[lo], LimbBits, n, 0], st[1]]
    ELSE DivDigits[a, n, DivDigits[a, n, st, (lo + hi) \div 2 + 1, hi],
                   lo, (lo + hi) \div 2]

\* the quotient without the zeros it ends with
Quotient[st \in Big \X Nat] == <<BigTrim[st[1]], st[2]>>

\* <<a \div n, a % n>>, for 0 < n <= 2^30
BigDivMod[a \in Big, n \in Nat] == Quotient[DivDigits[a, n, <<<<>>, 0>>, 1, Len(a)]]

\* <<a \div 10^k, whether a remainder was left (1) or not (0)>>, for
\* qs = <<a, 0>>, by halves of k
BigDivPow10[qs \in Big \X {0, 1}, k \in Nat] ==
    IF k <= 9
      THEN <<BigDivMod[qs[1], Pow10[k]][1],
             IF BigDivMod[qs[1], Pow10[k]][2] # 0 THEN 1 ELSE qs[2]>>
      ELSE BigDivPow10[BigDivPow10[qs, k \div 2], k - k \div 2]

(* -------------------------------- floats ------------------------------- *)
\* A Python float is an IEEE 754 binary64 number: a finite one is
\* sign * mant * 2^exp with mant a natural number that is odd, or 0 with
\* exp = 0 (the two zeros); inf and nan have mant = <<>> and exp = 0, and nan
\* has sign 1.  Every operation rounds its exact result to the nearest of
\* these numbers, to the one with the even 53-bit significand when two are
\* equally near.
Precision == 53
MinExp == -1074
MaxExp == 1024
\* np.float32
SinglePrecision == 24
SingleMinExp == -149
SingleMaxExp == 128

Signs == {-1, 1}
Float == [kind : {"finite", "inf", "nan"}, sign : Signs, mant : Big, exp : Int]

SignedZero(s) == [kind |-> "finite", sign |-> s, mant |-> <<>>, exp |-> 0]
SignedInf(s) == [kind |-> "inf", sign |-> s, mant |-> <<>>, exp |-> 0]
Zero == SignedZero(1)
NegZero == SignedZero(-1)
PosInf == SignedInf(1)
NegInf == SignedInf(-1)
NaN == [kind |-> "nan", sign |-> 1, mant |-> <<>>, exp |-> 0]

IsNaN(p) == p.kind = "nan"
IsInf(p) == p.kind = "inf"
IsZero(p) == p.kind = "finite" /\ p.mant = <<>>

\* s * m * 2^e, which is a number of the format
Finite[s \in Signs, m \in Big, e \in Int] ==
    IF m = <<>> THEN SignedZero(s)
    ELSE [kind |-> "finite", sign |-> s, mant |-> BigShr[m, BigTz[m]],
          exp |-> e + BigTz[m]]

\* s * m * 2^e, or the infinity when it is 2^emax or more
Limit[s \in Signs, m \in Big, e \in Int, emax \in Int] ==
    IF BigBitLen[m] + e > emax THEN SignedInf(s) ELSE Finite[s, m, e]

\* s * m * 2^e rounded to prec bits that are multiples of 2^emin
RoundTo[s \in Signs, m \in Big, e \in Int, prec \in Nat, emin \in Int, emax \in Int] ==
    IF Max(BigBitLen[m] - prec, emin - e) <= 0 THEN Limit[s, m, e, emax]
    ELSE Limit[s, BigRoundShr[m, Max(BigBitLen[m] - prec, emin - e)],
               e + Max(BigBitLen[m] - prec, emin - e), emax]

\* the double nearest to s * m * 2^e
Round(s, m, e) == RoundTo[s, m, e, Precision, MinExp, MaxExp]

\* the double nearest to s * (qs[1] + f) * 2^e, where 0 < f < 1 if qs[2] = 1
\* and f = 0 if qs[2] = 0, for qs[1] of Precision + 1 bits or more
RoundSticky[s \in Signs, qs \in Big \X Nat, e \in Int] ==
    Round(s, BigAdd[BigShl[qs[1], 1], <<>>, IF qs[2] # 0 THEN 1 ELSE 0], e - 1)

\* np.float32(p)
Float32[p \in Float] ==
    IF p.kind # "finite" THEN p
    ELSE RoundTo[p.sign, p.mant, p.exp, SinglePrecision, SingleMinExp, SingleMaxExp]

\* float(n) of an int
FloatOfInt[n \in Int] == Round(IF n < 0 THEN -1 ELSE 1, BigOfInt[Abs(n)], 0)

\* sa * a * 2^e + sb * b * 2^e for a, b > 0
FloatAddAligned[sa \in Signs, a \in Big, sb \in Signs, b \in Big, e \in Int] ==
    IF sa = sb THEN Round(sa, BigAdd[a, b, 0], e)
    ELSE IF BigCmp[a, b] = 0 THEN Zero
    ELSE IF BigCmp[a, b] > 0 THEN Round(sa, BigSub[a, b], e)
    ELSE Round(sb, BigSub[b, a], e)

\* q, or when q is below p * 2^-64 in size, a number of the sign of q that is
\* as small: p + q is rounded alike for the two (p, q finite and not 0)
Near[p \in Float, q \in Float] ==
    IF q.exp + BigBitLen[q.mant] < p.exp + BigBitLen[p.mant] - 64
      THEN [q EXCEPT !.mant = <<1>>, !.exp = p.exp + BigBitLen[p.mant] - 65]
      ELSE q

\* p + q for p, q finite and not 0, q not below p * 2^-64 in size and p not
\* below q * 2^-64
FloatAddNear[p \in Float, q \in Float] ==
    FloatAddAligned[p.sign, BigShl[p.mant, p.exp - Min(p.exp, q.exp)],
                    q.sign, BigShl[q.mant, q.exp - Min(p.exp, q.exp)],
                    Min(p.exp, q.exp)]

\* p + q
FloatAdd[p \in Float, q \in Float] ==
    IF IsNaN(p) \/ IsNaN(q) THEN NaN
    ELSE IF IsInf(p) THEN (IF IsInf(q) /\ q # p THEN NaN ELSE p)
    ELSE IF IsInf(q) THEN q
    ELSE IF IsZero(p) /\ IsZero(q)
      THEN (IF p = NegZero /\ q = NegZero THEN NegZero ELSE Zero)
    ELSE IF IsZero(p) THEN q
    ELSE IF IsZero(q) THEN p
    ELSE FloatAddNear[Near[q, p], Near[p, q]]

\* -p
FloatNeg[p \in Float] == IF IsNaN(p) THEN NaN ELSE [p EXCEPT !.sign = -p.sign]

\* p - q
FloatSub[p \in Float, q \in Float] == FloatAdd[p, FloatNeg[q]]

\* p * q
FloatMul[p \in Float, q \in Float] ==
    IF IsNaN(p) \/ IsNaN(q) THEN NaN
    ELSE IF IsInf(p) \/ IsInf(q)
      THEN (IF IsZero(p) \/ IsZero(q) THEN NaN ELSE SignedInf(p.sign * q.sign))
    ELSE Round(p.sign * q.sign, BigMul[p.mant, q.mant], p.exp + q.exp)

\* p / n for an int n with 0 < |n| <= 2^30
FloatDivInt[p \in Float, n \in Int] ==
    IF IsNaN(p) THEN NaN
    ELSE IF IsInf(p) THEN SignedInf(p.sign * (IF n < 0 THEN -1 ELSE 1))
    ELSE RoundSticky[p.sign * (IF n < 0 THEN -1 ELSE 1),
             BigDivMod[BigShl[p.mant, Max(0, Precision + 2 + BitLen[Abs(n)]
                                              - BigBitLen[p.mant])],
                       Abs(n)],
             p.exp - Max(0, Precision + 2 + BitLen[Abs(n)] - BigBitLen[p.mant])]

\* p < q
FloatLess[p \in Float, q \in Float] ==
    /\ FloatSub[p, q].kind # "nan"
    /\ FloatSub[p, q].sign < 0
    /\ ~IsZero(FloatSub[p, q])

\* int(p) of a finite p below 2^31 in size: the fraction is cut off
FloatTrunc[p \in Float] ==
    p.sign * BigToInt[IF p.exp >= 0 THEN BigShl[p.mant, p.exp]
                      ELSE BigShr[p.mant, -p.exp]]

\* the double nearest to s * d * 10^e10.  With b the number of bits of d,
\* d * 10^e10 is 2^(b - 1 + 33 * e10 / 10) or more when e10 >= 0, beyond the
\* doubles if that is 2^1024; it is below 2^(b + 33 * e10 / 10) when
\* e10 < 0, nearer to zero than to any other double if that is 2^-1080; and
\* 10^-e10 is then below 2^(-10 * e10 / 3 + 1), so that the quotient taken
\* has more than Precision + 1 bits.
FloatOfDecimal[s \in Signs, d \in Big, e10 \in Int] ==
    LET shift == Max(0, Precision + 4 + ((-10 * e10) \div 3) - BigBitLen[d])
    IN  IF d = <<>> THEN SignedZero(s)
        ELSE IF e10 >= 0
          THEN (IF BigBitLen[d] - 1 + ((33 * e10) \div 10) >= MaxExp
                  THEN SignedInf(s)
                  ELSE Round(s, BigMulPow10[d, e10], 0))
        ELSE IF BigBitLen[d] - ((-33 * e10) \div 10) < -1080 THEN SignedZero(s)
        ELSE RoundSticky[s, BigDivPow10[<<BigShl[d, shift], 0>>, -e10], -shift]

\* the double nearest to n/d for ints n and d with 0 < |d| <= 2^30
Rat(n, d) == FloatDivInt[FloatOfInt[n], d]

\* sum(s): the terms added from the left to the int 0
FloatSum[acc \in Float, s \in Seq(Float)] ==
    IF s = <<>> THEN acc
    ELSE IF Len(s) = 1 THEN FloatAdd[acc, s[1]]
    ELSE FloatSum[FloatSum[acc, SubSeq(s, 1, Len(s) \div 2)],
                  SubSeq(s, Len(s) \div 2 + 1, Len(s))]

(* -------------------------------- texts -------------------------------- *)
DigitChars == <<"0", "1", "2", "3", "4", "5", "6", "7", "8", "9">>

\* the str of a text
RECURSIVE Join(_)
Join(txt) ==
    IF Len(txt) = 0 THEN ""
    ELSE IF Len(txt) = 1 THEN txt[1]
    ELSE Join(SubSeq(txt, 1, Len(txt) \div 2))
         \o Join(SubSeq(txt, Len(txt) \div 2 + 1, Len(txt)))

\* format(k, "0{width}d") for k >= 0: decimal digits, zero-padded on the left
\* to at least `width` characters
RECURSIVE ZeroPad(_, _)
ZeroPad(k, width) ==
    IF k < 10 /\ width <= 1 THEN <<DigitChars[k + 1]>>
    ELSE Append(ZeroPad(k \div 10, width - 1), DigitChars[(k % 10) + 1])

\* the decimal digits of a, before the text acc, nine at a time
Decimal[a \in Big, acc \in Seq(STRING)] ==
    IF a = <<>> THEN acc
    ELSE IF BigDivMod[a, Pow10[9]][1] = <<>> THEN ZeroPad(BigToInt[a], 1) \o acc
    ELSE Decimal[BigDivMod[a, Pow10[9]][1],
                 ZeroPad(BigDivMod[a, Pow10[9]][2], 9) \o acc]

\* the digits ds of a number taken in units of 10^-digits, with the point
FixedText(ds, digits) ==
    LET padded == [i \in 1..Max(0, digits + 1 - Len(ds)) |-> "0"] \o ds
        whole == Len(padded) - digits
    IN  IF digits = 0 THEN padded
        ELSE SubSeq(padded, 1, whole) \o <<".">> \o SubSeq(padded, whole + 1, Len(padded))

\* format(t, ".{digits}f"): the value of the double, rounded to a multiple
\* of 10^-digits, to the even one of two that are equally near
FormatFixed[t \in Float, digits \in Nat] ==
    IF IsNaN(t) THEN "nan"
    ELSE IF IsInf(t) THEN (IF t.sign < 0 THEN "-inf" ELSE "inf")
    ELSE (IF t.sign < 0 THEN "-" ELSE "")
         \o Join(FixedText(
                Decimal[IF t.exp >= 0 THEN BigShl[BigMulPow10[t.mant, digits], t.exp]
                        ELSE BigRoundShr[BigMulPow10[t.mant, digits], -t.exp],
                        <<>>],
                digits))

\* f"{t:.6f}"
FormatTime(t) == FormatFixed[t, TimeDigits]

(* ------------------------------- state --------------------------------- *)
VARIABLES
    args,       \* parameters of the current generate_abc_flow activation
    pc,         \* position of that activation
    coords,     \* local: the axis coordinates
    dt,         \* local: step size
    k,          \* local: loop index
    vtr_names,  \* local: accumulated per-step file names
    times,      \* local: accumulated step times
    err,        \* exception raised by the activation ("none" when none)
    disk,       \* file system: [dirs: set of paths, files: path -> content]
    calls,      \* invocations of progress_callback by this activation
    writes,     \* paths this activation has written, in order
    runNo,      \* number of the activation (1 = first call)
    firstDisk,  \* <<disk>> as the first activation left it on success, or <<>>
    run_btn,    \* GUI: the "Generate Flow" button [enabled, text, style]
    form,       \* GUI: the texts of the line edits
    table,      \* GUI: the rows of the sinusoidal-terms table
    events,     \* GUI: user events posted to the window, not yet dispatched
    posted,     \* GUI: number of events the user has posted so far
    gpc,        \* GUI: where the GUI thread is ("none": no GUI)
    ret,        \* GUI: where the open directory dialog returns to
    stack       \* GUI: activations suspended in processEvents beneath a
                \* nested _on_run

guiVars == <<run_btn, form, table, events, posted, gpc, ret, stack>>

vars == <<args, pc, coords, dt, k, vtr_names, times, err, disk, calls,
          writes, runNo, firstDisk, guiVars>>

locals == <<coords, dt, k, vtr_names, times>>

(* --------------------------- pure functions ---------------------------- *)
\* np.pi, the double 3.141592653589793 = 884279719003555 * 2^-48
Pi == [kind |-> "finite", sign |-> 1, mant |-> <<1443, 21777, 4349, 25>>,
       exp |-> -48]

\* L = 2.0 * np.pi
L == FloatMul[FloatOfInt[2], Pi]

\* np.linspace(0.0, L, N, dtype=np.float32) for N >= 0: the multiples
\* 0, 1, .. N-1 of step = L / (N - 1), plus the start 0.0, with the last
\* sample set to L itself, all in doubles and then cast to float32
linspace(N) ==
    LET stop == L
        step == IF N > 1 THEN FloatDivInt[stop, N - 1] ELSE stop
    IN  [i \in 1..N |->
            Float32[IF N > 1 /\ i = N THEN stop
                    ELSE FloatAdd[FloatMul[FloatOfInt[i - 1], step], Zero]]]

\* zip(epsilons, omegas, betas) stops at the shortest sequence
ZipLen(a) == Min(Len(a.epsilons), Min(Len(a.omegas), Len(a.betas)))

\* phi(t): eps*sin(omega*t + beta) per zipped term, plus sum of a*t
phi(a, t) ==
    [sinusoidal |-> [i \in 1..ZipLen(a) |->
                        [eps |-> a.epsilons[i],
                         sinOf |-> FloatAdd[FloatMul[a.omegas[i], t], a.betas[i]]]],
     linear |-> FloatSum[Zero, [j \in 1..Len(a.a_list) |-> FloatMul[a.a_list[j], t]]]]

\* (mutation) the loop index reported as it is
ProgressArgs_ZeroBased(step, total) == <<step, total>>

\* progress_callback(k+1, n_step)
ProgressArgs(step, total) == <<step + 1, total>>

\* (mutation) the time at the end of the step
StepTime_EndOfStep(a, step, d) ==
    FloatAdd[a.t_start, FloatMul[FloatOfInt[step + 1], d]]

\* t = t_start + k * dt
StepTime(a, step, d) == FloatAdd[a.t_start, FloatMul[FloatOfInt[step], d]]

\* (mutation) the index without its zero padding
fname_Unpadded(a, step) == a.basename \o <<"_">> \o ZeroPad(step, 1)

\* fname = f"{basename}_{k:04d}"
fname(a, step) == a.basename \o <<"_">> \o ZeroPad(step, IndexWidth)

\* os.path.join(outdir, name): an absolute name stands alone; otherwise one
\* separator goes between the two unless outdir is empty or ends with one
PathJoin(dir, name) ==
    IF name # <<>> /\ Head(name) = "/" THEN name
    ELSE IF dir = <<>> \/ dir[Len(dir)] = "/" THEN dir \o name
    ELSE dir \o <<"/">> \o name

\* the name gridToVTK gives the file it writes for `path`
VtrName(path) == path \o <<".", "v", "t", "r">>

\* what gridToVTK serialises: the three axes and the "velocity" point data
\* (vx, vy, vz) = (A*(sin(z+ph)+cos(y+ph)), B*(sin(x+ph)+cos(z+ph)),
\* C*(sin(y+ph)+cos(x+ph))) over the mesh of the axes
VtrContent(a, c, ph) ==
    [kind |-> "RectilinearGrid",
     axes |-> <<c, c, c>>,
     pointData |-> <<[name |-> "velocity", A |-> a.A, B |-> a.B, C |-> a.C,
                      ph |-> ph]>>,
     lines |-> <<>>]

\* a file that holds lines of text only
TextFile(kind, lines) ==
    [kind |-> kind, axes |-> <<>>, pointData |-> <<>>, lines |-> lines]

\* pvd_path = os.path.join(outdir, f"{basename}_series.pvd")
pvd_path(a) ==
    PathJoin(a.outdir, a.basename
                 \o <<"_", "s", "e", "r", "i", "e", "s", ".", "p", "v", "d">>)

\* one f.write of the index: an XML line, as its tag and its attributes
XmlLine(tag, attrs) == [tag |-> tag, attrs |-> attrs]

\* f'    <DataSet timestep="{t:.6f}" group="" part="0" file="{name}"/>\n'
DataSetLine(t, name) ==
    XmlLine("DataSet", <<<<"timestep", FormatTime(t)>>, <<"group", "">>,
                         <<"part", "0">>, <<"file", Join(name)>>>>)

\* the lines written to the index file, one per f.write
PvdText(names, ts) ==
    <<XmlLine("?xml", <<<<"version", "1.0">>>>),
      XmlLine("VTKFile", <<<<"type", "Collection">>, <<"version", "0.1">>,
                           <<"byte_order", "LittleEndian">>>>),
      XmlLine("Collection", <<>>)>>
    \o [i \in 1..Min(Len(names), Len(ts)) |-> DataSetLine(ts[i], names[i])]
    \o <<XmlLine("/Collection", <<>>), XmlLine("/VTKFile", <<>>)>>

(* ----------------------------- file system ----------------------------- *)
\* Files are keyed by the string of their path, directories by the string of
\* their path without trailing separators; "" is the working directory.
RECURSIVE StripSlashes(_)
StripSlashes(p) ==
    IF Len(p) > 1 /\ p[Len(p)] = "/"
      THEN StripSlashes(SubSeq(p, 1, Len(p) - 1))
      ELSE p

\* os.path.dirname(path), without trailing separators
Dirname(path) ==
    LET seps == {i \in 1..Len(path) : path[i] = "/"}
        last == IF seps = {} THEN 0
                ELSE CHOOSE i \in seps : \A j \in seps : j <= i
    IN  StripSlashes(SubSeq(path, 1, last))

\* the directory `dir` and the directories above it, as texts
AncestorPaths(dir) ==
    {StripSlashes(SubSeq(dir, 1, i)) :
        i \in {j \in 1..Len(dir) : j = Len(dir) \/ dir[j + 1] = "/"}}

\* (mutation) the file opened for appending
Overwrite_Append(d, path, content) ==
    [d EXCEPT !.files = [p \in DOMAIN d.files \cup {path} |->
        IF p # path THEN d.files[p]
        ELSE IF path \in DOMAIN d.files
               THEN [content EXCEPT !.lines = d.files[path].lines \o @]
               ELSE content]]

\* creating or truncating the file at `path` and writing `content` to it
Overwrite(d, path, content) ==
    [d EXCEPT !.files = [p \in DOMAIN d.files \cup {path} |->
                            IF p = path THEN content ELSE d.files[p]]]

\* the disk with the directories `made` created
makedirs(d, made) == [d EXCEPT !.dirs = @ \cup made]

\* outcomes of os.makedirs(outdir, exist_ok=True), each with the directories
\* it has created.  The empty path raises FileNotFoundError, and a file at
\* the path or above it an OSError.  Otherwise the directories that are
\* absent are created from the top down; any of them may fail to be created,
\* which leaves the ones above it on the disk and raises OSError.
MakedirsOutcomes(d, dir) ==
    LET missing == {p \in AncestorPaths(dir) : Join(p) \notin d.dirs}
        depths == {0} \cup {Len(p) : p \in missing}
    IN  IF dir = <<>> \/ \E p \in AncestorPaths(dir) : Join(p) \in DOMAIN d.files
          THEN {[ok |-> FALSE, made |-> {}]}
          ELSE {[ok |-> \A p \in missing : Len(p) <= n,
                 made |-> {Join(p) : p \in {q \in missing : Len(q) <= n}}] :
                   n \in depths}

\* outcomes the environment allows a write of the file at `path`
WriteOutcomes(d, path) ==
    IF Join(Dirname(path)) \in d.dirs THEN {"ok", "fail", "truncated"}
    ELSE {"fail"}

(* --------------------------- GUI.py: parsing --------------------------- *)
\* the character of code point n that is no printable ASCII character
Chr(n) == "chr(" \o ToString(n) \o ")"

\* str.strip() removes the characters str.isspace() holds for: the ASCII
\* blanks, the separators 28-31, and the Unicode spaces
SpaceCodes ==
    {11, 28, 29, 30, 31, 133, 160, 5760, 8232, 8233, 8239, 8287, 12288}
        \cup 8192..8202
Spaces == {" ", "\t", "\n", "\r", "\f"} \cup {Chr(n) : n \in SpaceCodes}
IsSpace(c) == c \in Spaces

\* int() and float() skip the same blanks but for the separators 28-31
NumberSpaces == Spaces \ {Chr(n) : n \in 28..31}

\* txt without the characters of `blanks` it starts with
LStrip(txt, blanks) ==
    LET keep == {i \in 1..Len(txt) : txt[i] \notin blanks}
    IN  IF keep = {} THEN <<>>
        ELSE SubSeq(txt, CHOOSE i \in keep : \A j \in keep : i <= j, Len(txt))

\* txt without the characters of `blanks` it ends with
RStrip(txt, blanks) ==
    LET keep == {i \in 1..Len(txt) : txt[i] \notin blanks}
    IN  IF keep = {} THEN <<>>
        ELSE SubSeq(txt, 1, CHOOSE i \in keep : \A j \in keep : j <= i)

\* str.strip()
Strip(txt) == RStrip(LStrip(txt, Spaces), Spaces)

\* the text int() and float() read a number from
NumberText(txt) == RStrip(LStrip(txt, NumberSpaces), NumberSpaces)

\* the code points of the digits zero of the decimal digits int() and float()
\* read; the digits one to nine follow each
DigitZeros ==
    {48, 1632, 1776, 1984, 2406, 2534, 2662, 2790, 2918, 3046, 3174, 3302,
     3430, 3558, 3664, 3792, 3872, 4160, 4240, 6112, 6160, 6470, 6608, 6784,
     6800, 6992, 7088, 7232, 7248, 42528, 43216, 43264, 43472, 43504, 43600,
     44016, 65296, 66720, 68912, 69734, 69872, 69942, 70096, 70384, 70736,
     70864, 71248, 71360, 71472, 71904, 72016, 72784, 73040, 73120, 92768,
     92864, 93008, 120782, 120792, 120802, 120812, 120822, 123200, 123632,
     125264, 130032}

\* <<character, value>> of every decimal digit
DigitTable ==
    {<<DigitChars[v + 1], v>> : v \in 0..9}
        \cup {<<Chr(z + v), v>> : z \in DigitZeros \ {48}, v \in 0..9}

IsDigit(c) == \E p \in DigitTable : p[1] = c
DigitVal(c) == (CHOOSE p \in DigitTable : p[1] = c)[2]

\* the values of a sequence of digits
DigitVals(ds) == [i \in 1..Len(ds) |-> DigitVal(ds[i])]

\* value of a sequence of digits, below 2^31
DigitsVal(ds) == BigToInt[BigOfDigits[DigitVals(ds)]]

\* value of the digits of an exponent: one of more than ExpDigits digits
\* counts as 10^ExpDigits, which is beyond any float just as well
ExpDigits == 6
ExponentVal(ds) ==
    IF Len(BigOfDigits[DigitVals(ds)]) > 2 THEN Pow10[ExpDigits]
    ELSE Min(Pow10[ExpDigits], DigitsVal(ds))

\* a numeral: digits, with single underscores allowed between two digits
DigitGroup(ds) ==
    /\ ds # <<>>
    /\ \A i \in 1..Len(ds) :
          \/ IsDigit(ds[i])
          \/ /\ ds[i] = "_"
             /\ 1 < i /\ i < Len(ds)
             /\ IsDigit(ds[i - 1]) /\ IsDigit(ds[i + 1])

\* the digits of a numeral
Digits(ds) == SelectSeq(ds, LAMBDA c : IsDigit(c))

HasSign(txt) == txt # <<>> /\ Head(txt) \in {"+", "-"}
SignOf(txt) == IF txt # <<>> /\ Head(txt) = "-" THEN -1 ELSE 1
Unsigned(txt) == IF HasSign(txt) THEN Tail(txt) ELSE txt

\* the letters of "infinity", "nan" and the exponent mark, which float()
\* reads in either case
UpperLetters == <<"I", "N", "F", "T", "Y", "A", "E">>
LowerLetters == <<"i", "n", "f", "t", "y", "a", "e">>
FoldCase(c) ==
    IF \E i \in 1..Len(UpperLetters) : UpperLetters[i] = c
      THEN LowerLetters[CHOOSE i \in 1..Len(UpperLetters) : UpperLetters[i] = c]
      ELSE c

\* int(text): surrounding blanks, an optional sign, a numeral; anything else
\* raises ValueError (ok = FALSE)
ParseInt(text) ==
    LET body == Unsigned(NumberText(text))
        ok == DigitGroup(body)
    IN  [ok |-> ok,
         val |-> IF ok THEN SignOf(NumberText(text)) * DigitsVal(Digits(body))
                 ELSE 0]

\* the position of the first character of `txt` that is in `chars`, or
\* Len(txt) + 1 when there is none
First(txt, chars) ==
    LET hits == {i \in 1..Len(txt) : txt[i] \in chars}
    IN  IF hits = {} THEN Len(txt) + 1
        ELSE CHOOSE i \in hits : \A j \in hits : i <= j

\* the float of sign, integer part, fraction part and exponent part
FloatOfParts(sign, int, frac, hasExp, expo) ==
    LET ok == /\ int = <<>> \/ DigitGroup(int)
              /\ frac = <<>> \/ DigitGroup(frac)
              /\ int # <<>> \/ frac # <<>>
              /\ ~hasExp \/ DigitGroup(Unsigned(expo))
        e10 == (IF hasExp THEN SignOf(expo) * ExponentVal(Digits(Unsigned(expo)))
                ELSE 0)
               - Len(Digits(frac))
    IN  [ok |-> ok,
         val |-> IF ~ok THEN Zero
                 ELSE FloatOfDecimal[sign,
                          BigOfDigits[DigitVals(Digits(int) \o Digits(frac))],
                          e10]]

\* the float of a sign, a mantissa "int.frac" and an exponent part (the
\* position of the "." is computed once)
FloatOfMantissa(sign, mant, hasExp, expo) ==
    CHOOSE r \in {FloatOfParts(sign, SubSeq(mant, 1, dot - 1),
                               SubSeq(mant, dot + 1, Len(mant)), hasExp, expo) :
                      dot \in {First(mant, {"."})}} : TRUE

\* the float of a sign and what follows it
FloatOfBody(sign, body) ==
    LET word == Join([i \in 1..Len(body) |-> FoldCase(body[i])])
    IN  IF word \in {"inf", "infinity"} THEN [ok |-> TRUE, val |-> SignedInf(sign)]
        ELSE IF word = "nan" THEN [ok |-> TRUE, val |-> NaN]
        ELSE CHOOSE r \in {FloatOfMantissa(sign, SubSeq(body, 1, epos - 1),
                                            epos <= Len(body),
                                            SubSeq(body, epos + 1, Len(body))) :
                               epos \in {First(body, {"e", "E"})}} : TRUE

\* float(text): surrounding blanks, an optional sign, then "inf", "infinity"
\* or "nan" in any case, or numerals around a "." (one of the two may be
\* missing, and so may the ".") with an optional exponent "e" / "E", sign,
\* numeral; anything else raises ValueError (ok = FALSE).  The value is the
\* double nearest to the numeral.
ParseFloat(text) ==
    CHOOSE r \in {FloatOfBody(SignOf(s), Unsigned(s)) : s \in {NumberText(text)}} :
        TRUE

\* text.split(','): the texts before, between and after the commas
Split(txt) ==
    LET commas == {i \in 1..Len(txt) : txt[i] = ","}
        ends == commas \cup {0, Len(txt) + 1}
        nth(n) == CHOOSE c \in ends : Cardinality({d \in ends : d < c}) = n
    IN  [n \in 1..(Cardinality(commas) + 1) |->
            SubSeq(txt, nth(n - 1) + 1, nth(n) - 1)]

\* [float(x) for x in text.split(',') if x.strip()]
ParseFloatList(text) ==
    LET parts == SelectSeq(Split(text), LAMBDA x : Strip(x) # <<>>)
        floats == [i \in 1..Len(parts) |-> ParseFloat(parts[i])]
    IN  [ok |-> \A i \in 1..Len(parts) : floats[i].ok,
         val |-> [i \in 1..Len(parts) |-> floats[i].val]]

\* lines 115-120: the rows before the first row with a blank cell
RowFilled(row) == \A c \in 1..3 : Strip(row[c]) # <<>>
TermRows(t) ==
    LET blank == {r \in 1..Len(t) : ~RowFilled(t[r])}
        n == IF blank = {} THEN Len(t)
             ELSE (CHOOSE r \in blank : \A q \in blank : r <= q) - 1
    IN  SubSeq(t, 1, n)

ParseTable(t) ==
    LET rows == TermRows(t)
        floats == [r \in 1..Len(rows) |-> [c \in 1..3 |-> ParseFloat(rows[r][c])]]
    IN  [ok |-> \A r \in 1..Len(rows) : \A c \in 1..3 : floats[r][c].ok,
         epsilons |-> [r \in 1..Len(rows) |-> floats[r][1].val],
         omegas |-> [r \in 1..Len(rows) |-> floats[r][2].val],
         betas |-> [r \in 1..Len(rows) |-> floats[r][3].val]]

\* lines 112-123 and 144-151: the arguments _on_run passes to the engine
ParseInputs(f, t) ==
    LET A == ParseFloat(f.A_edit)
        B == ParseFloat(f.B_edit)
        C == ParseFloat(f.C_edit)
        N == ParseInt(f.N_edit)
        terms == ParseTable(t)
        a == ParseFloatList(f.a_list_edit)
        t0 == ParseFloat(f.tstart_edit)
        t1 == ParseFloat(f.tend_edit)
        steps == ParseInt(f.nstep_edit)
    IN  [ok |-> A.ok /\ B.ok /\ C.ok /\ N.ok /\ terms.ok /\ a.ok /\ t0.ok
                /\ t1.ok /\ steps.ok,
         args |-> [N |-> N.val, A |-> A.val, B |-> B.val, C |-> C.val,
                   epsilons |-> terms.epsilons, omegas |-> terms.omegas,
                   betas |-> terms.betas, a_list |-> a.val,
                   t_start |-> t0.val, t_end |-> t1.val, n_step |-> steps.val,
                   outdir |-> f.outdir_edit,
                   basename |-> Strip(f.basename_edit),
                   progress_callback |-> "update_progress"]]

(* -------------------------- GUI.py: the button ------------------------- *)
\* line 84
NewRunBtn == [enabled |-> TRUE, text |-> "Generate Flow", style |-> ""]

\* (mutation) the button left as it is
DisableRunBtn_Skipped(b) == b

\* line 143: self.run_btn.setEnabled(False)
DisableRunBtn(b) == [b EXCEPT !.enabled = FALSE]

\* lines 152-154 and 157-159
RestoreRunBtn(b) ==
    [b EXCEPT !.enabled = TRUE, !.text = "Generate Flow", !.style = ""]

\* line 126: pct = int(done / total * 100): the quotient and the product are
\* doubles, and int() cuts the fraction off
Percent(done, total) ==
    FloatTrunc[FloatMul[FloatDivInt[FloatOfInt[done], total], FloatOfInt[100]]]

\* min(p, q) of Python: q if q < p, and p otherwise
FloatMin(p, q) == IF FloatLess[q, p] THEN q ELSE p

\* lines 128-139: the style sheet for a percentage
StyleSheet(pct) ==
    LET p == FloatDivInt[FloatOfInt[pct], 100]
        delta == Rat(1, 1000)
    IN  "QPushButton {border: 1px solid #555;border-radius: 4px;padding: 5px;"
        \o "color: black;background: qlineargradient(x1:0, y1:0, x2:1, y2:0, "
        \o "stop:0 green, stop:" \o FormatFixed[p, 3] \o " green, stop:"
        \o FormatFixed[FloatMin(FloatAdd[p, delta], FloatOfInt[1]), 3]
        \o " lightgray, stop:1 lightgray);}"

\* lines 127 and 140
ShowProgress(b, done, total) ==
    [b EXCEPT !.text = Join(ZeroPad(Percent(done, total), 1)) \o "%",
              !.style = StyleSheet(Percent(done, total))]

\* lines 41-46: one row of three empty cells
EmptyRow == <<<<>>, <<>>, <<>>>>
NewTable == <<EmptyRow>>

\* lines 90-102: the table after cell (r, c) has been given text `txt`
on_table_item_changed(t, r, c, txt) ==
    LET edited == [t EXCEPT ![r][c] = txt]
    IN  IF r = Len(t) /\ Strip(txt) # <<>>
          THEN Append([edited EXCEPT ![r] =
                          [col \in 1..3 |-> IF Strip(edited[r][col]) = <<>>
                                              THEN <<"0">> ELSE edited[r][col]]],
                      EmptyRow)
          ELSE edited

\* lines 104-107: the form after the directory dialog returned `directory`
\* (the empty text when it was cancelled)
choose_outdir(f, directory) ==
    IF directory # <<>> THEN [f EXCEPT !.outdir_edit = directory] ELSE f

(* ------------------------------- inputs -------------------------------- *)
\* <<t_start, t_end>>: forwards, backwards and dt = 0
TimeSpans == {<<Zero, FloatOfInt[1]>>, <<FloatOfInt[1], Zero>>, <<Zero, Zero>>}
\* <<t_start, t_end>> whose steps are rounded (0 to 0.000005 and to
\* 0.0000165, 0.1 to 0.7), and a negative zero that runs backwards or
\* forwards
FineSpans == {<<Zero, Rat(1, 200000)>>, <<Zero, Rat(33, 2000000)>>,
              <<Rat(1, 10), Rat(7, 10)>>,
              <<NegZero, FloatOfInt[-1]>>, <<NegZero, FloatOfInt[1]>>}
TermSeqs(v) == {[i \in 1..n |-> v] : n \in 0..MaxTerms}

OutputDir == <<"o", "u", "t", "p", "u", "t">>
AbcName == <<"a", "b", "c">>
\* output directories: plain, with a trailing separator, nested, empty
OutDirs == {OutputDir, Append(OutputDir, "/"), OutputDir \o <<"/", "r", "u", "n">>,
            <<>>}
\* base names: plain, and one that is an absolute path
BaseNames == {AbcName, <<"/", "a", "b", "s">>}

\* the working directory "" and the root exist
EmptyDisk == [dirs |-> {"", "/"}, files |-> <<>>]
\* the directory `dir` left by an earlier run of base name abc
StaleDisk(dir) ==
    [dirs |-> {"", "/", dir},
     files |-> [p \in {dir \o "/abc_0000.vtr", dir \o "/abc_series.pvd"}
                   |-> TextFile("stale", <<>>)]]

\* a call with valid numbers
PlainArgs(n) ==
    [N |-> MaxN, A |-> FloatOfInt[1], B |-> FloatOfInt[1], C |-> FloatOfInt[1],
     epsilons |-> <<>>, omegas |-> <<>>, betas |-> <<>>,
     a_list |-> <<FloatOfInt[1]>>,
     t_start |-> Zero, t_end |-> FloatOfInt[1], n_step |-> n,
     outdir |-> OutputDir, basename |-> AbcName,
     progress_callback |-> "None"]

\* calls that differ in their grid size, with and without a callback
GridArgs ==
    {[PlainArgs(n) EXCEPT !.N = N, !.progress_callback = cb] :
        N \in {-1, 0, 1, MaxN}, n \in {0, 1}, cb \in {"None", "observer"}}

\* calls that differ in their number of steps, their time span and their
\* linear terms, with and without a callback
StepArgs ==
    {[PlainArgs(n) EXCEPT !.t_start = s[1], !.t_end = s[2], !.a_list = a,
                          !.progress_callback = cb] :
        n \in -1..MaxSteps, s \in TimeSpans, a \in {<<>>, <<FloatOfInt[1]>>},
        cb \in {"None", "observer"}}

\* calls that differ in their sinusoidal terms, of equal and unequal lengths
TermArgs ==
    {[PlainArgs(n) EXCEPT !.epsilons = e, !.omegas = o, !.betas = b] :
        n \in {1, MaxSteps}, e \in TermSeqs(Rat(1, 2)),
        o \in TermSeqs(FloatOfInt[2]), b \in TermSeqs(Zero)}

\* calls that differ in their output directory and base name
PathArgs ==
    {[PlainArgs(2) EXCEPT !.outdir = o, !.basename = b] :
        o \in OutDirs, b \in BaseNames}

\* calls that differ in their time span, with the linear term 0.1 * t
FineArgs ==
    {[PlainArgs(n) EXCEPT !.t_start = s[1], !.t_end = s[2],
                          !.a_list = <<Rat(1, 10)>>] :
        n \in 1..MaxSteps, s \in FineSpans}

\* the form as constructed (lines 23-73), with small values typed in place of
\* the defaults 48 and 200 of N and n_step and the working directory "/"
Forms ==
    [A_edit : {<<"1", ".", "0">>}, B_edit : {<<"1", ".", "0">>},
     C_edit : {<<"1", ".", "0">>},
     N_edit : {<<"2">>},
     a_list_edit : {<<"1", ".", "0", ",", "0", ".", "3">>},
     tstart_edit : {<<"0", ".", "0">>},
     tend_edit : {<<"1", "0", ".", "0">>},
     nstep_edit : {<<"2">>, <<"0">>, <<"-", "1">>, <<"x">>},
     basename_edit : {AbcName},
     outdir_edit : {<<"/">> \o OutputDir}]

DefaultForm == CHOOSE f \in Forms : f.N_edit = <<"2">> /\ f.nstep_edit = <<"2">>

\* what the user types into a cell of the table: a numeral and a no-break
\* space, which strip() and float() both drop
CellTexts == {<<"1", Chr(160)>>}
\* what the user types into a line edit: <<field, text>>
TypedTexts == {<<"tend_edit", <<"1", "e", "-", "3">>>>,
               <<"nstep_edit", <<Chr(160), Chr(1634), Chr(11)>>>>}
\* what the directory dialog can return besides the empty text: the
\* directories that exist for it to show
Directories == {<<"/", "t", "m", "p">>}
\* the disk `d` with those directories
WithDirectories(d) == [d EXCEPT !.dirs = @ \cup {Join(x) : x \in Directories}]

NoArgs ==
    [N |-> 0, A |-> Zero, B |-> Zero, C |-> Zero,
     epsilons |-> <<>>, omegas |-> <<>>, betas |-> <<>>, a_list |-> <<>>,
     t_start |-> Zero, t_end |-> Zero, n_step |-> 0,
     outdir |-> <<>>, basename |-> <<>>, progress_callback |-> "None"]

InitLocals ==
    /\ coords = <<>>
    /\ dt = Zero
    /\ k = 0
    /\ vtr_names = <<>>
    /\ times = <<>>

Init ==
    /\ args \in GridArgs \cup StepArgs \cup TermArgs \cup PathArgs \cup FineArgs
    /\ pc = "entry"
    /\ InitLocals
    /\ err = "none"
    /\ disk \in {EmptyDisk, StaleDisk("output")}
    /\ calls = <<>>
    /\ writes = <<>>
    /\ runNo = 1
    /\ firstDisk = <<>>
    /\ run_btn = NewRunBtn
    /\ form = DefaultForm
    /\ table = NewTable
    /\ events = <<>>
    /\ posted = 0
    /\ gpc = "none"
    /\ ret = "none"
    /\ stack = <<>>

(* ------------------------- generate_abc_flow --------------------------- *)
\* the exception `e` leaves the function
Raise(e) ==
    /\ pc' = "Failed"
    /\ err' = e

\* lines 40-45: np.linspace rejects a negative number of samples
BuildGrid ==
    /\ UNCHANGED guiVars
    /\ pc = "entry"
    /\ IF args.N < 0
         THEN Raise("ValueError") /\ UNCHANGED coords
         ELSE /\ coords' = linspace(args.N)
              /\ pc' = "GridBuilt"
              /\ UNCHANGED err
    /\ UNCHANGED <<args, dt, k, vtr_names, times, disk, calls, writes, runNo,
                   firstDisk>>

\* lines 48-52: create the output folder, compute dt (Python numbers: a
\* zero n_step raises ZeroDivisionError), start the lists
PrepareOutput ==
    /\ UNCHANGED guiVars
    /\ pc = "GridBuilt"
    /\ \E outcome \in MakedirsOutcomes(disk, args.outdir) :
         IF ~outcome.ok
           THEN /\ disk' = makedirs(disk, outcome.made)
                /\ Raise("OSError")
                /\ UNCHANGED <<dt, k, vtr_names, times>>
           ELSE /\ disk' = makedirs(disk, outcome.made)
                /\ IF args.n_step = 0
                     THEN Raise("ZeroDivisionError")
                          /\ UNCHANGED <<dt, k, vtr_names, times>>
                     ELSE /\ dt' = FloatDivInt[FloatSub[args.t_end, args.t_start],
                                               args.n_step]
                          /\ vtr_names' = <<>>
                          /\ times' = <<>>
                          /\ k' = 0
                          /\ pc' = "loop"
                          /\ UNCHANGED err
    /\ UNCHANGED <<args, coords, calls, writes, runNo, firstDisk>>

\* lines 54-57: the loop takes step k and reports progress for it
ReportProgress ==
    /\ UNCHANGED guiVars
    /\ pc = "loop"
    /\ k < args.n_step
    /\ IF args.progress_callback # "None"
         THEN /\ calls' = Append(calls, ProgressArgs(k, args.n_step))
              /\ pc' = "callback"
         ELSE /\ pc' = "step"
              /\ UNCHANGED calls
    /\ UNCHANGED <<args, locals, err, disk, writes, runNo, firstDisk>>

\* a caller-supplied observer returns (it records the call and raises
\* nothing)
ObserverReturn ==
    /\ UNCHANGED guiVars
    /\ pc = "callback"
    /\ args.progress_callback = "observer"
    /\ pc' = "step"
    /\ UNCHANGED <<args, locals, err, disk, calls, writes, runNo, firstDisk>>

\* lines 59-75: evaluate the phase and the field, write the step file,
\* record its name and time
WriteStep ==
    /\ UNCHANGED guiVars
    /\ pc = "step"
    /\ LET t == StepTime(args, k, dt)
           ph == phi(args, t)
           name == fname(args, k)
           file == VtrName(PathJoin(args.outdir, name))
       IN  \E outcome \in WriteOutcomes(disk, file) :
             IF outcome = "ok"
               THEN /\ disk' = Overwrite(disk, Join(file),
                                         VtrContent(args, coords, ph))
                    /\ writes' = Append(writes, file)
                    /\ vtr_names' = Append(vtr_names, VtrName(name))
                    /\ times' = Append(times, t)
                    /\ k' = k + 1
                    /\ pc' = "loop"
                    /\ UNCHANGED err
               ELSE /\ Raise("IOFailure")
                    /\ disk' = IF outcome = "truncated"
                                 THEN Overwrite(disk, Join(file),
                                                TextFile("truncated", <<>>))
                                 ELSE disk
                    /\ UNCHANGED <<writes, vtr_names, times, k>>
    /\ UNCHANGED <<args, coords, dt, calls, runNo, firstDisk>>

\* lines 54, 78-86: the loop is exhausted; write the PVD index
WriteIndex ==
    /\ UNCHANGED guiVars
    /\ pc = "loop"
    /\ ~(k < args.n_step)
    /\ \E outcome \in WriteOutcomes(disk, pvd_path(args)) :
         IF outcome = "ok"
           THEN /\ disk' = Overwrite(disk, Join(pvd_path(args)),
                                 TextFile("Collection", PvdText(vtr_names, times)))
                /\ writes' = Append(writes, pvd_path(args))
                /\ pc' = "print"
                /\ UNCHANGED err
           ELSE /\ Raise("IOFailure")
                /\ disk' = IF outcome = "truncated"
                             THEN Overwrite(disk, Join(pvd_path(args)),
                                            TextFile("truncated", <<>>))
                             ELSE disk
                /\ UNCHANGED writes
    /\ UNCHANGED <<args, locals, calls, runNo, firstDisk>>

\* outcomes of print(...): the line goes to standard output, or the write
\* to it (or the encoding of the line for it) raises
PrintOutcomes == {"ok", "fail"}

\* line 88: report the number of steps on standard output and return
Announce ==
    /\ UNCHANGED guiVars
    /\ pc = "print"
    /\ \E outcome \in PrintOutcomes :
         IF outcome = "ok"
           THEN /\ pc' = "Done"
                /\ firstDisk' = IF runNo = 1 /\ firstDisk = <<>>
                                  THEN <<disk>> ELSE firstDisk
                /\ UNCHANGED err
           ELSE /\ Raise("StdoutError")
                /\ UNCHANGED firstDisk
    /\ UNCHANGED <<args, locals, disk, calls, writes, runNo>>

\* the caller invokes generate_abc_flow again with the same parameters
CallAgain ==
    /\ UNCHANGED guiVars
    /\ pc \in {"Done", "Failed"}
    /\ runNo < MaxRuns
    /\ runNo' = runNo + 1
    /\ pc' = "entry"
    /\ err' = "none"
    /\ coords' = <<>>
    /\ dt' = Zero
    /\ k' = 0
    /\ vtr_names' = <<>>
    /\ times' = <<>>
    /\ calls' = <<>>
    /\ writes' = <<>>
    /\ UNCHANGED <<args, disk, firstDisk>>

Next ==
    \/ BuildGrid
    \/ PrepareOutput
    \/ ReportProgress
    \/ ObserverReturn
    \/ WriteStep
    \/ WriteIndex
    \/ Announce
    \/ CallAgain

Spec == Init /\ [][Next]_vars

(* ------------------------------ ABCFlowGUI ----------------------------- *)
\* The GUI thread is in the main event loop ("idle"), inside the engine
\* called at line 144 ("engine"), inside QApplication.processEvents() at line
\* 141 ("processEvents"), inside the modal directory dialog of line 105
\* ("dirDialog"), or inside a modal message box at line 155 ("information")
\* or line 160 ("critical").

\* the engine activation as a record, to suspend and resume it
Frame ==
    [args |-> args, pc |-> pc, coords |-> coords, dt |-> dt, k |-> k,
     vtr_names |-> vtr_names, times |-> times, err |-> err, calls |-> calls,
     writes |-> writes]

NoFrame(e) ==
    [args |-> NoArgs, pc |-> "inactive", coords |-> <<>>, dt |-> Zero,
     k |-> 0, vtr_names |-> <<>>, times |-> <<>>, err |-> e, calls |-> <<>>,
     writes |-> <<>>]

NewFrame(a) == [NoFrame("none") EXCEPT !.args = a, !.pc = "entry"]

LoadFrame(f) ==
    /\ args' = f.args
    /\ pc' = f.pc
    /\ coords' = f.coords
    /\ dt' = f.dt
    /\ k' = f.k
    /\ vtr_names' = f.vtr_names
    /\ times' = f.times
    /\ err' = f.err
    /\ calls' = f.calls
    /\ writes' = f.writes

engineVars == <<args, pc, coords, dt, k, vtr_names, times, err, calls, writes>>

InitGUI ==
    /\ args = NoArgs
    /\ pc = "inactive"
    /\ InitLocals
    /\ err = "none"
    /\ calls = <<>>
    /\ writes = <<>>
    /\ disk \in {WithDirectories(EmptyDisk), WithDirectories(StaleDisk("/output"))}
    /\ runNo = 1
    /\ firstDisk = <<>>
    /\ run_btn = NewRunBtn
    /\ form \in Forms
    /\ table = NewTable
    /\ events = <<>>
    /\ posted = 0
    /\ gpc = "idle"
    /\ ret = "none"
    /\ stack = <<>>

Dispatching == gpc \in {"idle", "processEvents"} /\ events # <<>>

\* an event of the user, as posted to the window
Event(type, row, col, field, text) ==
    [type |-> type, row |-> row, col |-> col, field |-> field, text |-> text]

\* the user clicks the Generate Flow button
UserClick ==
    /\ gpc # "none"
    /\ posted < MaxEvents
    /\ posted' = posted + 1
    /\ events' = Append(events, Event("click", 0, 0, "", <<>>))
    /\ UNCHANGED <<engineVars, disk, runNo, firstDisk, run_btn, form, table,
                   gpc, ret, stack>>

\* the user clicks the Browse... button
UserBrowse ==
    /\ gpc # "none"
    /\ posted < MaxEvents
    /\ posted' = posted + 1
    /\ events' = Append(events, Event("browse", 0, 0, "", <<>>))
    /\ UNCHANGED <<engineVars, disk, runNo, firstDisk, run_btn, form, table,
                   gpc, ret, stack>>

\* the user types a text into a cell of the table
UserEditCell ==
    /\ gpc # "none"
    /\ posted < MaxEvents
    /\ posted' = posted + 1
    /\ \E r \in 1..Len(table), c \in 1..3, txt \in CellTexts :
         /\ r < Len(table) \/ Len(table) < MaxRows
         /\ events' = Append(events, Event("edit", r, c, "", txt))
    /\ UNCHANGED <<engineVars, disk, runNo, firstDisk, run_btn, form, table,
                   gpc, ret, stack>>

\* the user replaces the text of a line edit
UserType ==
    /\ gpc # "none"
    /\ posted < MaxEvents
    /\ posted' = posted + 1
    /\ \E ft \in TypedTexts :
         events' = Append(events, Event("type", 0, 0, ft[1], ft[2]))
    /\ UNCHANGED <<engineVars, disk, runNo, firstDisk, run_btn, form, table,
                   gpc, ret, stack>>

\* lines 90-102: a cell edit is delivered
TableItemChanged ==
    /\ Dispatching
    /\ Head(events).type = "edit"
    /\ events' = Tail(events)
    /\ table' = on_table_item_changed(table, Head(events).row,
                                      Head(events).col, Head(events).text)
    /\ UNCHANGED <<engineVars, disk, runNo, firstDisk, run_btn, form, posted,
                   gpc, ret, stack>>

\* the line edit takes the text typed into it (no handler of GUI.py runs)
LineEdited ==
    /\ Dispatching
    /\ Head(events).type = "type"
    /\ events' = Tail(events)
    /\ form' = [form EXCEPT ![Head(events).field] = Head(events).text]
    /\ UNCHANGED <<engineVars, disk, runNo, firstDisk, run_btn, table, posted,
                   gpc, ret, stack>>

\* lines 104-105: a click reaches the Browse... button (it is never
\* disabled) and _choose_outdir opens the modal directory dialog
ChooseOutdir ==
    /\ Dispatching
    /\ Head(events).type = "browse"
    /\ events' = Tail(events)
    /\ ret' = gpc
    /\ gpc' = "dirDialog"
    /\ UNCHANGED <<engineVars, disk, runNo, firstDisk, run_btn, form, table,
                   posted, stack>>

\* lines 105-107: the dialog is closed, with a directory or cancelled, and
\* _choose_outdir returns to the loop that delivered the click; input that
\* was posted to the blocked window is lost or still pending
ChooseOutdirReturn ==
    /\ gpc = "dirDialog"
    /\ \E directory \in Directories \cup {<<>>} :
          form' = choose_outdir(form, directory)
    /\ \E pending \in {<<>>, events} : events' = pending
    /\ gpc' = ret
    /\ ret' = "none"
    /\ UNCHANGED <<engineVars, disk, runNo, firstDisk, run_btn, table, posted,
                   stack>>

\* a click reaches the button while it is disabled: no clicked signal
ClickIgnored ==
    /\ Dispatching
    /\ Head(events).type = "click"
    /\ ~run_btn.enabled
    /\ events' = Tail(events)
    /\ UNCHANGED <<engineVars, disk, runNo, firstDisk, run_btn, form, table,
                   posted, gpc, ret, stack>>

\* lines 109-144 (and 156-160 when parsing raises): a click reaches the
\* enabled button and _on_run starts
OnRun ==
    /\ Dispatching
    /\ Head(events).type = "click"
    /\ run_btn.enabled
    /\ events' = Tail(events)
    /\ stack' = IF gpc = "processEvents" THEN Append(stack, Frame) ELSE stack
    /\ LET parsed == ParseInputs(form, table)
       IN  IF parsed.ok
             THEN /\ run_btn' = DisableRunBtn(run_btn)
                  /\ LoadFrame(NewFrame(parsed.args))
                  /\ gpc' = "engine"
             ELSE /\ run_btn' = RestoreRunBtn(run_btn)
                  /\ LoadFrame(NoFrame("ValueError"))
                  /\ gpc' = "critical"
    /\ UNCHANGED <<disk, runNo, firstDisk, form, table, posted, ret>>

\* lines 125-141: update_progress shows the percentage and enters
\* QApplication.processEvents()
UpdateProgress ==
    /\ gpc = "engine"
    /\ pc = "callback"
    /\ args.progress_callback = "update_progress"
    /\ run_btn' = ShowProgress(run_btn, calls[Len(calls)][1], calls[Len(calls)][2])
    /\ gpc' = "processEvents"
    /\ UNCHANGED <<engineVars, disk, runNo, firstDisk, form, table, events,
                   posted, ret, stack>>

\* processEvents has nothing left to deliver; update_progress returns
ProcessEventsReturn ==
    /\ gpc = "processEvents"
    /\ events = <<>>
    /\ gpc' = "engine"
    /\ pc' = "step"
    /\ UNCHANGED <<args, locals, err, calls, writes, disk, runNo, firstDisk,
                   run_btn, form, table, events, posted, ret, stack>>

\* lines 152-155: the engine returned
OnRunSuccess ==
    /\ gpc = "engine"
    /\ pc = "Done"
    /\ run_btn' = RestoreRunBtn(run_btn)
    /\ gpc' = "information"
    /\ UNCHANGED <<engineVars, disk, runNo, firstDisk, form, table, events,
                   posted, ret, stack>>

\* lines 156-160: the engine raised
OnRunExcept ==
    /\ gpc = "engine"
    /\ pc = "Failed"
    /\ run_btn' = RestoreRunBtn(run_btn)
    /\ gpc' = "critical"
    /\ UNCHANGED <<engineVars, disk, runNo, firstDisk, form, table, events,
                   posted, ret, stack>>

\* the modal message box is dismissed and _on_run returns, to the event loop
\* or to the processEvents call it was started from; input that was posted
\* to the blocked window is lost or still pending
DismissMessage ==
    /\ gpc \in {"information", "critical"}
    /\ \E pending \in {<<>>, events} : events' = pending
    /\ IF stack = <<>>
         THEN /\ LoadFrame(NoFrame("none"))
              /\ gpc' = "idle"
              /\ UNCHANGED stack
         ELSE /\ LoadFrame(stack[Len(stack)])
              /\ gpc' = "processEvents"
              /\ stack' = SubSeq(stack, 1, Len(stack) - 1)
    /\ UNCHANGED <<disk, runNo, firstDisk, run_btn, form, table, posted, ret>>

NextGUI ==
    \/ UserClick
    \/ UserBrowse
    \/ UserEditCell
    \/ UserType
    \/ TableItemChanged
    \/ LineEdited
    \/ ChooseOutdir
    \/ ChooseOutdirReturn
    \/ ClickIgnored
    \/ OnRun
    \/ BuildGrid
    \/ PrepareOutput
    \/ ReportProgress
    \/ UpdateProgress
    \/ ProcessEventsReturn
    \/ WriteStep
    \/ WriteIndex
    \/ Announce
    \/ OnRunSuccess
    \/ OnRunExcept
    \/ DismissMessage

SpecGUI == InitGUI /\ [][NextGUI]_vars

(* ===================== properties of generate_abc_flow ================== *)
Range(f) == {f[i] : i \in DOMAIN f}

\* the four-digit decimal numeral of j, for 0 <= j <= 9999
FourDigits(j) ==
    <<DigitChars[((j \div 1000) % 10) + 1], DigitChars[((j \div 100) % 10) + 1],
      DigitChars[((j \div 10) % 10) + 1], DigitChars[(j % 10) + 1]>>

\* {basename}_{j:04d}.vtr
StepFileName(a, j) == a.basename \o <<"_">> \o FourDigits(j) \o <<".", "v", "t", "r">>
\* {basename}_series.pvd
IndexFileName(a) ==
    a.basename \o <<"_", "s", "e", "r", "i", "e", "s", ".", "p", "v", "d">>
\* where the run puts the file it gives the name `name`
WrittenAt(a, name) == PathJoin(a.outdir, name)
\* the file of that name inside the output directory
InOutdir(a, name) == StripSlashes(a.outdir) \o <<"/">> \o name

\* p and q are the same number
FloatEq(p, q) == ~IsNaN(p) /\ ~IsNaN(q) /\ ~FloatLess[p, q] /\ ~FloatLess[q, p]

\* t_start + j * dt with dt = (t_end - t_start) / n_step
TimeOfStep(a, j) ==
    FloatAdd[a.t_start,
             FloatMul[FloatOfInt[j],
                      FloatDivInt[FloatSub[a.t_end, a.t_start], a.n_step]]]

HasCallback == args.progress_callback # "None"
EqualTermLengths ==
    Len(args.epsilons) = Len(args.omegas) /\ Len(args.omegas) = Len(args.betas)
\* parameters the specification admits: N >= 2, n_step >= 1, equal lengths
OtherwiseValid == args.N >= 2 /\ args.n_step >= 1 /\ EqualTermLengths
IndexWritten == \E i \in 1..Len(writes) : writes[i] = WrittenAt(args, IndexFileName(args))
StepFilesWritten ==
    Len(SelectSeq(writes, LAMBDA p : p # WrittenAt(args, IndexFileName(args))))

\* C1: in a successful run with a callback and n_step >= 1 the callback has
\* been invoked exactly n_step times, the i-th call being (i, n_step).
C1_CallbackSequence ==
    (pc = "Done" /\ HasCallback /\ args.n_step >= 1)
        => calls = [i \in 1..args.n_step |-> <<i, args.n_step>>]

C1_Witness ==
    pc = "Done" /\ HasCallback /\ args.n_step >= 2 /\ Len(calls) = args.n_step

\* C2: whenever the callback has been invoked (in a run with valid
\* parameters), the steps_completed it last
\* reported does not exceed the number of per-step files already written.
C2_ProgressAfterStep ==
    (OtherwiseValid /\ calls # <<>>)
        => calls[Len(calls)][1] <= StepFilesWritten

\* the DataSet entries of the index the run has written
IndexEntries ==
    LET index == Join(WrittenAt(args, IndexFileName(args)))
    IN  IF index \in DOMAIN disk.files
          THEN SelectSeq(disk.files[index].lines, LAMBDA l : l.tag = "DataSet")
          ELSE <<>>

\* the index holds exactly n_step DataSet entries, the j-th (from 0) naming
\* {basename}_{j:04d}.vtr with the double t_start + j*dt to six decimals
EntriesOfSteps ==
    /\ Len(IndexEntries) = args.n_step
    /\ \A j \in 0..(args.n_step - 1) :
          IndexEntries[j + 1].attrs =
              <<<<"timestep", FormatTime(TimeOfStep(args, j))>>,
                <<"group", "">>, <<"part", "0">>,
                <<"file", Join(StepFileName(args, j))>>>>

C4_RejectsStepCountBelowOne ==
    (args.n_step < 1 /\ args.N >= 2 /\ EqualTermLengths) =>
        (pc # "Done" /\ ~IndexWritten)

\* C5: with N < 2 (the other parameters valid) grid construction fails, so the run never gets past it and
\* writes no file.
C5_RejectsGridBelowTwo ==
    (args.N < 2 /\ args.n_step >= 1 /\ EqualTermLengths) =>
        /\ pc = "entry" \/ (pc = "Failed" /\ err = "ValueError")
        /\ writes = <<>>

\* C6: with term sequences of unequal length (N and n_step valid) no
\* step is computed from the truncated terms and the run does not reach Done.
C6_RejectsUnequalTermLengths ==
    (args.n_step >= 1 /\ args.N >= 2 /\ ~EqualTermLengths)
        => (pc # "Done" /\ writes = <<>>)

\* C7: when the step writer has failed at step k, exactly the files of steps
\* 0..k-1 have been written by the run and still hold what was written, the
\* index has not been written, and the last callback was the one for step k.
C7_WriterFailureAborts ==
    (pc = "Failed" /\ err = "IOFailure" /\ k < args.n_step) =>
        /\ writes = [j \in 1..k |-> WrittenAt(args, StepFileName(args, j - 1))]
        /\ calls = [i \in 1..(IF HasCallback THEN k + 1 ELSE 0)
                        |-> <<i, args.n_step>>]
        /\ \A j \in 0..(k - 1) :
              LET file == Join(WrittenAt(args, StepFileName(args, j)))
              IN  /\ file \in DOMAIN disk.files
                  /\ disk.files[file] =
                        VtrContent(args, linspace(args.N),
                                   phi(args, TimeOfStep(args, j)))

C7_Witness ==
    /\ pc = "Failed" /\ err = "IOFailure" /\ k = 2 /\ args.n_step = 3
    /\ HasCallback /\ Len(writes) = 2

\* C8: the files a run with valid parameters writes are, in this order and
\* each once, the per-step files {basename}_{j:04d}.vtr of steps 0, 1, ...
\* and then, only after the last of them, the index {basename}_series.pvd,
\* every one of them inside the output directory; a successful run has
\* written all n_step + 1 of them; nothing is written before the output
\* directory exists.
ExpectedWrites(a) ==
    [i \in 1..(a.n_step + 1) |->
        IF i <= a.n_step THEN InOutdir(a, StepFileName(a, i - 1))
        ELSE InOutdir(a, IndexFileName(a))]

C8_WriteOrder ==
    OtherwiseValid =>
        /\ Len(writes) <= Len(ExpectedWrites(args))
        /\ \A i \in 1..Len(writes) : writes[i] = ExpectedWrites(args)[i]
        /\ pc = "Done" => writes = ExpectedWrites(args)
        /\ writes # <<>> => Join(StripSlashes(args.outdir)) \in disk.dirs
        /\ Cardinality(Range(writes)) = Len(writes)

\* C9: a successful run that follows a successful first run with the same
\* parameters and output directory leaves the disk as the first run left it.
C9_Idempotent ==
    (runNo >= 2 /\ pc = "Done" /\ firstDisk # <<>>) => disk = firstDisk[1]

C9_Witness ==
    /\ runNo = 2 /\ pc = "Done" /\ firstDisk # <<>> /\ args.n_step >= 2
    /\ Len(args.a_list) >= 1

(* ========================= properties of the GUI ======================= *)
\* engine activations that have been entered and have not returned or raised
RunsInProgress ==
    Len(stack) + (IF pc \in {"entry", "GridBuilt", "loop", "callback", "step",
                                "print"}
                    THEN 1 ELSE 0)

\* C10: at most one generate_abc_flow run is in progress and _on_run is never
\* started from the processEvents call of a run; the button is disabled for
\* as long as the engine call lasts, the directory dialog opened during it
\* included; and once _on_run has restored the button (the message box is up,
\* or the handler has returned to the event loop) it is enabled with the text
\* "Generate Flow".
C10_SingleRun ==
    /\ RunsInProgress <= 1
    /\ stack = <<>>
    /\ (gpc \in {"engine", "processEvents"}
            \/ (gpc = "dirDialog" /\ ret = "processEvents"))
          => ~run_btn.enabled
    /\ (gpc \in {"idle", "information", "critical"}
            \/ (gpc = "dirDialog" /\ ret = "idle"))
          => (run_btn.enabled /\ run_btn.text = "Generate Flow")

\* a click is delivered by processEvents in the middle of a run, after the
\* first step was written and after the directory dialog, opened from the
\* processEvents call of the first step, has changed the output directory of
\* the form
C10_Witness ==
    /\ gpc = "processEvents"
    /\ events # <<>> /\ Head(events).type = "click"
    /\ k = 1 /\ args.n_step = 2 /\ Len(writes) = 1
    /\ run_btn.text = "100%"
    /\ form.outdir_edit # args.outdir

====
